---- MODULE Spec2Model ----
(***************************************************************************)
(* Tax Refund Status Service: the operational store (Users, TaxFiles,      *)
(* TaxProcessingEvents, TaxRefundPredictions), the request handlers of     *)
(* RefundStatusController / RefundStatusService / PredictionService with   *)
(* one step per awaited call, and the ML API they talk to.                 *)
(***************************************************************************)
EXTENDS Integers, Sequences, FiniteSets, TLC

VARIABLES
    users,        \* Users rows (UserID)
    taxFiles,     \* TaxFiles rows
    events,       \* TaxProcessingEvents rows
    nextEventId,  \* EventID of the next inserted event (insertion order)
    predictions,  \* TaxRefundPredictions rows
    nextPredId,   \* stands for uuidv4(): the next fresh PredictionID
    served,       \* what the ML API answered for each stored prediction
    mlUp,         \* the ML API process is running
    mlVersion,    \* version of the latest trained model artifact, which the
                  \* ML API serves (0: no model)
    req,          \* in-flight and answered HTTP requests, one per slot
    models,       \* MLModels rows of the analytics store
    decisions,    \* RetrainingDecisions rows of the analytics store, in order
    run,          \* runs of train_ml_model.sh, one per slot
    cleanup,      \* position of cleanup_models.sh
    client        \* state of the browser's UserDashboard and its components

vars == <<users, taxFiles, events, nextEventId, predictions, nextPredId,
          served, mlUp, mlVersion, req, models, decisions, run, cleanup,
          client>>

-----------------------------------------------------------------------------
(* Bounds of the model *)

NumReq == 2       \* request slots (concurrent requests)
MaxEvents == 2    \* processing events inserted in one behaviour
MaxDay == 2       \* days a StatusUpdateDate / DateOfFiling ranges over
MaxVersion == 2   \* models trained in one behaviour
NumRuns == 2      \* runs of train_ml_model.sh
MaxDecisions == 2 \* retraining decisions recorded in one behaviour
MaxFetches == 3   \* selections of a tax filing the client makes

-----------------------------------------------------------------------------
(* Values *)

Null == "NULL"                 \* SQL NULL / JS null in a string column
None == <<>>                   \* an absent optional value (undefined / null)
Some(v) == <<v>>
Falsy(s) == s \in {Null, ""}   \* JS truthiness of a string | null

Days == 1..MaxDay

\* A timestamp string, by its segments: "YYYY-MM-DD HH:MM:SS" has the
\* separator " " between date and time, an ISO string has "T".
Timestamp(day, sep, hour) == [date |-> day, sep |-> sep, time |-> hour]

\* The separators of the timestamps the store holds (db/sample_data.sql).
StoreSeparators == {" "}

SepRank(sep) == IF sep = " " THEN 0 ELSE 1

\* SQLite compares the TEXT values byte-wise, left to right.
TsLess(a, b) ==
    \/ a.date < b.date
    \/ a.date = b.date /\ SepRank(a.sep) < SepRank(b.sep)
    \/ a.date = b.date /\ a.sep = b.sep /\ a.time < b.time

\* The calendar-date part (YYYY-MM-DD) of a timestamp string.
DatePart(ts) == [date |-> ts.date]

\* String.prototype.split('T')[0]: the text before the first 'T', the whole
\* string when it holds no 'T'.
SplitT0(ts) == IF ts.sep = "T" THEN [date |-> ts.date] ELSE ts

-----------------------------------------------------------------------------
(* The operational store: db/schema.sql, db/sample_data.sql *)

TaxFileRow(id, user, year, day, amount) ==
    [TaxFileID |-> id, UserID |-> user, TaxYear |-> year,
     FilingType |-> "Individual",
     DateOfFiling |-> Timestamp(day, " ", 9),
     ClaimedRefundAmount |-> amount, GeographicRegion |-> "Northeast"]

\* clientUI before the dashboard is opened: the state of UserDashboard,
\* RefundStatus and RefundStatusHistory, and the api calls in flight.
\* data is the TaxFileID whose data a component holds ("" initially, Null
\* for the null / [] the api layer returns on an error).
IdleClient ==
    [opened |-> FALSE,
     loading |-> TRUE,                           \* UserDashboard.loading
     taxFilings |-> <<>>,                        \* TaxFileIDs of taxFilings
     selected |-> "",                            \* selectedTaxFileId
     status |-> [loading |-> TRUE, data |-> ""], \* RefundStatus
     history |-> [loading |-> TRUE, data |-> ""],\* RefundStatusHistory
     fetches |-> {},                             \* api calls awaiting an answer
     nextFetch |-> 1]

UserIds == {"user-001", "user-002"}
UnknownUser == "user-999"

SampleTaxFiles ==
    { TaxFileRow("taxfile-001", "user-001", 2023, 1, 2500),
      TaxFileRow("taxfile-002", "user-002", 2024, 1, 1800) }

\* The TaxFiles rows the filings listing is checked over.
FilingPool ==
    { TaxFileRow("taxfile-001", "user-001", 2023, 1, 2500),
      TaxFileRow("taxfile-002", "user-002", 2024, 1, 1800),
      TaxFileRow("taxfile-003", "user-001", 2024, 1, 3200),
      TaxFileRow("taxfile-004", "user-001", 2024, 2, 1200),
      TaxFileRow("taxfile-005", "user-001", 2024, 2, 950) }

FileIds == {"taxfile-001", "taxfile-002"}
UnknownFile == "taxfile-999"

\* The (NewStatus, ActionRequired, ProcessingCenter) combinations an inserted
\* event is drawn from.
EventShape(status, action, center) ==
    [NewStatus |-> status, ActionRequired |-> action, ProcessingCenter |-> center]

EventShapes ==
    { EventShape("Submitted", Null, "Northeast Center"),
      EventShape("Processing", Null, "Northeast Center"),
      EventShape("Processing", Null, Null),
      EventShape("Needs Action", "DOC-W2-MISSING", "Northeast Center"),
      EventShape("Needs Action", "", "Northeast Center"),
      EventShape("Needs Action", Null, "Northeast Center"),
      EventShape("Approved", Null, "Northeast Center"),
      EventShape("Approved", "DOC-W2-MISSING", "Northeast Center") }

EventRow(id, file, shape, day) ==
    [EventID |-> id, TaxFileID |-> file, NewStatus |-> shape.NewStatus,
     StatusDetails |-> <<"details of event", id>>,
     StatusUpdateDate |-> Timestamp(day, " ", 9),
     ActionRequired |-> shape.ActionRequired,
     ProcessingCenter |-> shape.ProcessingCenter]

-----------------------------------------------------------------------------
(* DbService: db-service.ts *)

\* SELECT * FROM Users WHERE UserID = ?
getUserById(us, userId) ==
    IF userId \in us THEN Some(userId) ELSE None

\* a sorts strictly before b under ORDER BY TaxYear DESC, DateOfFiling DESC
FilingBefore(a, b) ==
    \/ a.TaxYear > b.TaxYear
    \/ a.TaxYear = b.TaxYear /\ TsLess(b.DateOfFiling, a.DateOfFiling)

\* SELECT * FROM TaxFiles WHERE UserID = ? ORDER BY TaxYear DESC,
\* DateOfFiling DESC: the row lists the query may return (ties in any order).
getTaxFilesByUserId(files, userId) ==
    LET rows == {f \in files : f.UserID = userId}
        n == Cardinality(rows)
    IN {s \in [1..n -> rows] :
          /\ \A i, j \in 1..n : i # j => s[i] # s[j]
          /\ \A i \in 1..(n - 1) : ~FilingBefore(s[i + 1], s[i])}

\* SELECT * FROM TaxFiles WHERE TaxFileID = ?  (TaxFileID is the primary key)
getTaxFileById(files, taxFileId) ==
    IF \E f \in files : f.TaxFileID = taxFileId
    THEN Some(CHOOSE f \in files : f.TaxFileID = taxFileId)
    ELSE None

EventsOf(evts, taxFileId) == {e \in evts : e.TaxFileID = taxFileId}

\* Mutant: the row inserted last (ORDER BY rowid DESC) instead of the latest.
getLastInsertedEvent(evts, taxFileId) ==
    {e \in EventsOf(evts, taxFileId) :
        \A o \in EventsOf(evts, taxFileId) : o.EventID <= e.EventID}

\* ... WHERE TaxFileID = ? ORDER BY StatusUpdateDate DESC LIMIT 1: the rows
\* the query may return (any of the rows that tie for the greatest date).
getLatestTaxProcessingEvent(evts, taxFileId) ==
    {e \in EventsOf(evts, taxFileId) :
        \A o \in EventsOf(evts, taxFileId) :
            ~TsLess(e.StatusUpdateDate, o.StatusUpdateDate)}

\* ... WHERE TaxFileID = ? ORDER BY StatusUpdateDate ASC: the row lists the
\* query may return (rows with equal dates in any order).
getTaxProcessingEvents(evts, taxFileId) ==
    LET rows == EventsOf(evts, taxFileId)
        n == Cardinality(rows)
    IN {s \in [1..n -> rows] :
          /\ \A i, j \in 1..n : i # j => s[i] # s[j]
          /\ \A i \in 1..(n - 1) :
                ~TsLess(s[i + 1].StatusUpdateDate, s[i].StatusUpdateDate)}

-----------------------------------------------------------------------------
(* The ML API (ml_etl, served by host_ml_model.sh) as ml-integration.ts sees it *)

VersionNames == <<"v1.0", "v2", "v3", "v4">>
MLDays == {7, 21}
Now == MaxDay + 1

\* The body of POST /predict sent by getPrediction.
PredictionRequest(filingType, taxYear, refundAmount, region, center) ==
    [filing_type |-> filingType, tax_year |-> taxYear,
     refund_amount |-> refundAmount, geographic_region |-> region,
     processing_center |-> center, filing_period |-> None,
     source_status |-> "Processing", target_status |-> "Approved"]

\* Mutant: the processing center is passed on as it was read.
processingCenterAsRead(center) == center

\* latestEvent.ProcessingCenter || 'Unknown'
processingCenterOrUnknown(center) == IF Falsy(center) THEN "Unknown" ELSE center

\* The PredictionResponse of a running ML API that serves model `version`.
PredictionResponse(version, days) ==
    [estimated_days |-> days, confidence_score |-> 85,
     predicted_date |-> [date |-> Now + days],
     model_version |-> VersionNames[version]]

\* Mutant: POST /predict without a timeout; the call returns only when the
\* API answers.
getPredictionNoTimeout(up, version) ==
    IF up
    THEN {None} \cup (IF version # 0
                      THEN {Some(PredictionResponse(version, d)) : d \in MLDays}
                      ELSE {})
    ELSE {}

\* getPrediction: the response body, or null when the call throws (API down,
\* HTTP error such as no active model, 5 s timeout).
getPrediction(up, version) ==
    {None} \cup (IF up /\ version # 0
                 THEN {Some(PredictionResponse(version, d)) : d \in MLDays}
                 ELSE {})

HealthCheckResponse(status, loaded) == [status |-> status, model_loaded |-> loaded]

\* What GET /health yields within the 2 s timeout: a HealthCheckResponse of
\* the running API, or nothing (API down, error, timeout).
HealthResponses(up, version) ==
    {None} \cup
    (IF ~up THEN {}
     ELSE IF version # 0 THEN {Some(HealthCheckResponse("ok", TRUE))}
     ELSE {Some(HealthCheckResponse(st, FALSE)) : st \in {"ok", "degraded"}})

\* checkMLApiHealth: response.data.status === 'ok', false when the call throws.
checkMLApiHealth(response) == response # None /\ response[1].status = "ok"

-----------------------------------------------------------------------------
(* The analytics store (ml_etl/data/schema.sql) and the model lifecycle *)

MLModelRow(version, active) == [ModelVersion |-> version, IsActive |-> active]

ActiveModels(ms) == {m \in ms : m.IsActive}

\* The version ModelTrainer gives the next artifact: one greater than the
\* active version, 1 when no model is active.
NextModelVersion(ms) ==
    IF ActiveModels(ms) = {} THEN 1
    ELSE (CHOOSE m \in ActiveModels(ms) :
             \A o \in ActiveModels(ms) : o.ModelVersion <= m.ModelVersion).ModelVersion + 1

\* ModelTrainer.train on MLModels: the new artifact's row becomes the active
\* one and the rows before it are deactivated, in one transaction.
train(ms) ==
    {MLModelRow(m.ModelVersion, FALSE) : m \in ms}
        \cup {MLModelRow(NextModelVersion(ms), TRUE)}

\* Mutant: DELETE FROM MLModels WHERE IsActive = 0.
cleanupInactiveModels(ms) == ActiveModels(ms)

\* cleanup_models.sh: DELETE FROM MLModels
cleanupModels(ms) == {}

RetrainIntervalDays == 30
AccuracyFloor == 70

\* The triggers that hold, by name.
Triggers(schedule, performance, drift) ==
    (IF schedule THEN {"schedule"} ELSE {})
        \cup (IF performance THEN {"performance"} ELSE {})
        \cup (IF drift THEN {"drift"} ELSE {})

\* Mutant: the reason names the first trigger that holds only.
decideFirstMatch(elapsedDays, accuracy, worsening, driftDetected) ==
    LET schedule == elapsedDays > RetrainIntervalDays
        performance == accuracy < AccuracyFloor \/ worsening
    IN [ScheduleBasedRetraining |-> schedule,
        PerformanceBasedRetraining |-> performance,
        DriftBasedRetraining |-> driftDetected,
        RetrainingRecommended |-> schedule \/ performance \/ driftDetected,
        RecommendationReason |->
            IF schedule THEN {"schedule"}
            ELSE IF performance THEN {"performance"}
            ELSE IF driftDetected THEN {"drift"} ELSE {},
        LastTrainingDate |-> [date |-> 0 - elapsedDays]]

\* RetrainingDecisionEngine.decide: the RetrainingDecisions row recorded for
\* the days since the active model was trained, the latest accuracy within 7
\* days (percent), its trend, and the latest drift report.
decide(elapsedDays, accuracy, worsening, driftDetected) ==
    LET schedule == elapsedDays > RetrainIntervalDays
        performance == accuracy < AccuracyFloor \/ worsening
    IN [ScheduleBasedRetraining |-> schedule,
        PerformanceBasedRetraining |-> performance,
        DriftBasedRetraining |-> driftDetected,
        RetrainingRecommended |-> schedule \/ performance \/ driftDetected,
        RecommendationReason |-> Triggers(schedule, performance, driftDetected),
        LastTrainingDate |-> [date |-> 0 - elapsedDays]]

-----------------------------------------------------------------------------
(* PredictionService: prediction-service.ts *)

PredictionResult(ml) ==
    [estimatedDays |-> ml.estimated_days,
     confidenceScore |-> ml.confidence_score,
     predictedDate |-> ml.predicted_date]

\* Mutant: fall back to a default estimate of three weeks.
DefaultEstimate(taxFile) ==
    Some([estimatedDays |-> 21, confidenceScore |-> 70,
          predictedDate |-> [date |-> Now + 21]])

\* What predictRefundAvailability returns when the ML API gave no prediction.
NoPrediction(taxFile) == None

InputFeatures(taxFile) ==
    [filingType |-> taxFile.FilingType, taxYear |-> taxFile.TaxYear,
     region |-> taxFile.GeographicRegion, amount |-> taxFile.ClaimedRefundAmount]

\* const modelVersion in createTaxRefundPrediction
modelVersion == "v1.0"

\* Mutant: a constant PredictionID instead of a fresh uuidv4().
createPredictionWithFilingId(predictionId, taxFileId, confidenceScore, date, features) ==
    [PredictionID |-> 1, TaxFileID |-> taxFileId,
     ConfidenceScore |-> confidenceScore, ModelVersion |-> modelVersion,
     PredictedAvailabilityDate |-> date, InputFeatures |-> features]

\* The row inserted by DbService.createTaxRefundPrediction.
createTaxRefundPrediction(predictionId, taxFileId, confidenceScore, date, features) ==
    [PredictionID |-> predictionId, TaxFileID |-> taxFileId,
     ConfidenceScore |-> confidenceScore, ModelVersion |-> modelVersion,
     PredictedAvailabilityDate |-> date, InputFeatures |-> features]

-----------------------------------------------------------------------------
(* RefundStatusService.getRefundStatus: refund-status-service.ts *)

NotFoundStatus ==
    [status |-> "Not Found",
     details |-> "No processing events found for this tax filing.",
     lastUpdated |-> Timestamp(Now, "T", 9), actionRequired |-> Null,
     estimatedCompletionDays |-> None, estimatedCompletionDate |-> None,
     refundAmount |-> None, depositDate |-> None]

BaseStatus(e) ==
    [status |-> e.NewStatus, details |-> e.StatusDetails,
     lastUpdated |-> e.StatusUpdateDate, actionRequired |-> e.ActionRequired,
     estimatedCompletionDays |-> None, estimatedCompletionDate |-> None,
     refundAmount |-> None, depositDate |-> None]

\* Mutant: only the number of days is copied into the response.
WithPredictionDaysOnly(st, p) ==
    IF p # None
    THEN [st EXCEPT !.estimatedCompletionDays = Some(p[1].estimatedDays)]
    ELSE st

\* case 'Processing', once predictRefundAvailability has returned p
WithPrediction(st, p) ==
    IF p # None
    THEN [st EXCEPT !.estimatedCompletionDays = Some(p[1].estimatedDays),
                    !.estimatedCompletionDate = Some(p[1].predictedDate)]
    ELSE st

\* case 'Approved'
WithApproved(st, taxFile, e) ==
    [st EXCEPT !.refundAmount = Some(taxFile.ClaimedRefundAmount),
               !.depositDate = Some(SplitT0(e.StatusUpdateDate))]

\* Mutant: the 'Approved' fields are added whatever the status.
SwitchStatusAlwaysApproved(taxFile, e) == WithApproved(BaseStatus(e), taxFile, e)

\* The switch for every status that awaits nothing further.
SwitchStatus(taxFile, e) ==
    IF e.NewStatus = "Approved"
    THEN WithApproved(BaseStatus(e), taxFile, e)
    ELSE BaseStatus(e)

-----------------------------------------------------------------------------
(* RefundStatusController: refund-status-controller.ts *)

Response(code, body) == [code |-> code, body |-> body]

\* getRefundStatus, once the service has returned st (None for null)
StatusResponse(st) ==
    IF st = None
    THEN Response(404, [error |-> "Tax filing not found"])
    ELSE Response(200, st[1])

\* Mutant: the action code is not looked at.
NoActionNeededStatusOnly(st) == st.status # "Needs Action"

\* getActionGuidance rejects the request when this holds of the status
NoActionNeeded(st) == st.status # "Needs Action" \/ Falsy(st.actionRequired)

NoActionResponse ==
    Response(400, [error |-> "This tax filing does not require action or has no action code"])

(* ActionGuidanceService: what Bedrock answers, as far as the code looks at it *)

\* A field of the LLM's JSON answer is None when absent, else Some(value).
\* JavaScript truthiness, the test !x of the validation, by the value's type:
TruthyString(j) == j # None /\ j[1] # ""

\* Mutant: only an absent number counts as missing.
TruthyNumberIfDefined(j) == j # None

TruthyNumber(j) == j # None /\ j[1] # 0

TruthyArray(j) == j # None

\* The answers of the knowledge base: the call rejects, or a response whose
\* retrievalResults is missing (Null) or a list of results whose text may be
\* missing.
KbResponse(rejects, results) == [rejects |-> rejects, retrievalResults |-> results]
KbResponses ==
    {KbResponse(TRUE, None), KbResponse(FALSE, None)}
        \cup {KbResponse(FALSE, Some(l)) :
                 l \in {<<>>, <<Null>>, <<"text">>, <<Null, "text">>}}

\* queryKnowledgeBase: None when it throws, else Some(textResults)
queryKnowledgeBase(response) ==
    IF response.rejects \/ response.retrievalResults = None THEN None
    ELSE LET textResults == SelectSeq(response.retrievalResults[1],
                                      LAMBDA t : t # Null) IN
         IF Len(response.retrievalResults[1]) = 0 \/ Len(textResults) = 0
         THEN None
         ELSE Some(textResults)

\* The JSON objects the LLM may answer with
JsonResponses ==
    [explanation : {None, Some(""), Some("explanation")},
     steps : {None, Some(<<>>), Some(<<"step">>)},
     estimatedResolutionDays : {None, Some(0), Some(14)},
     resources : {None, Some(<<"resource">>)}]

\* The answers of the LLM: the call rejects, the body has no content, the
\* text holds no JSON object, the braces do not parse, or a JSON object.
LlmAnswers ==
    {[kind |-> k, json |-> None] : k \in {"rejects", "noContent", "noJson", "badJson"}}
        \cup {[kind |-> "json", json |-> Some(o)] : o \in JsonResponses}

\* The object generatePersonalizedGuidance returns
ActionGuidance(jsonResponse) ==
    [explanation |-> jsonResponse.explanation,
     steps |-> jsonResponse.steps,
     estimatedResolutionDays |-> jsonResponse.estimatedResolutionDays,
     resources |-> jsonResponse.resources]

\* generatePersonalizedGuidance: None when it throws
generatePersonalizedGuidance(answer) ==
    IF answer.kind # "json" THEN None
    ELSE LET jsonResponse == answer.json[1] IN
         IF /\ TruthyString(jsonResponse.explanation)
            /\ TruthyArray(jsonResponse.steps)
            /\ TruthyNumber(jsonResponse.estimatedResolutionDays)
            /\ TruthyArray(jsonResponse.resources)
         THEN Some(ActionGuidance(jsonResponse))
         ELSE None

InternalError == Response(500, [error |-> "Internal server error"])

-----------------------------------------------------------------------------
(* Requests *)

IdleReq ==
    [kind |-> "idle", arg |-> "", pc |-> "idle",
     taxFile |-> None,      \* taxFile of getRefundStatus
     latestEvent |-> None,  \* latestEvent of getRefundStatus
     readAt |-> 0,          \* nextEventId when latestEvent was read
     pTaxFile |-> None,     \* taxFile of predictRefundAvailability
     pEvent |-> None,       \* latestEvent of predictRefundAvailability
     healthResp |-> None,   \* the body GET /health answered with
     health |-> None,       \* isMLApiAvailable
     pStatus |-> None,      \* Some(NewStatus predictRefundAvailability read)
     sent |-> None,         \* the body of the POST /predict this request sent
     ml |-> None,           \* mlPrediction, once getPrediction has answered
     predId |-> None,       \* PredictionID of the row this request inserted
     pred |-> None,         \* Some(what predictRefundAvailability returned)
     svc |-> None,          \* Some(what getRefundStatus returned)
     guided |-> FALSE,      \* actionGuidanceService.getActionGuidance was called
     kb |-> None,           \* Some(what the knowledge base answered)
     llm |-> None,          \* Some(what the LLM answered)
     selected |-> "",       \* selectedTaxFileId of the client's UserDashboard
     rejected |-> FALSE,    \* a DbService read of this request rejected
     resp |-> None]         \* the HTTP response

Slots == DOMAIN req

\* The controller's continuation after `await refundStatusService.getRefundStatus`.
Returned(q, st) ==
    LET q1 == [q EXCEPT !.svc = Some(st)] IN
    IF q.kind = "status"
    THEN [q1 EXCEPT !.pc = "done", !.resp = Some(StatusResponse(st))]
    ELSE IF st = None
    THEN [q1 EXCEPT !.pc = "done", !.resp = Some(StatusResponse(st))]
    ELSE IF NoActionNeeded(st[1])
    THEN [q1 EXCEPT !.pc = "done", !.resp = Some(NoActionResponse)]
    ELSE [q1 EXCEPT !.pc = "guide"]

\* getRefundStatus's continuation after `await predictRefundAvailability`.
Predicted(q, p) ==
    Returned([q EXCEPT !.pred = Some(p)],
             Some(WithPrediction(BaseStatus(q.latestEvent[1]), p)))

\* Mutant: predictRefundAvailability without its catch; the error reaches the
\* catch of getRefundStatus, which returns null.
PredictionThrows(q) == Returned(q, None)

\* Mutant: the catch returns the estimate the ML API had given.
PredictionFailedKeepsEstimate(q) ==
    Predicted(q, IF q.ml # None THEN Some(PredictionResult(q.ml[1])) ELSE None)

\* predictRefundAvailability's catch: the error is logged, null is returned.
PredictionFailed(q) == Predicted(q, None)

UnchangedStore == UNCHANGED <<users, taxFiles, events, nextEventId>>
UnchangedPredictions == UNCHANGED <<predictions, nextPredId, served>>
UnchangedML == UNCHANGED <<mlUp, mlVersion>>
UnchangedPipeline == UNCHANGED <<models, decisions, run, cleanup, client>>

\* GET /api/refund-status/:taxFileId and POST .../action-guidance arrive.
Start(r, kind, taxFileId) ==
    /\ req[r].pc = "idle"
    /\ req' = [req EXCEPT ![r] = [IdleReq EXCEPT !.kind = kind, !.arg = taxFileId,
                                                 !.pc = "getTaxFile"]]
    /\ UnchangedStore /\ UnchangedPredictions /\ UnchangedML
    /\ UnchangedPipeline

\* getRefundStatus: await dbService.getTaxFileById
GetTaxFile(r) ==
    /\ req[r].pc = "getTaxFile"
    /\ \/ req' = [req EXCEPT ![r] = Returned([@ EXCEPT !.rejected = TRUE], None)]  \* rejects
       \/ LET tf == getTaxFileById(taxFiles, req[r].arg) IN
          req' = [req EXCEPT ![r] =
                    IF tf = None THEN Returned(@, None)
                    ELSE [@ EXCEPT !.taxFile = tf, !.pc = "getLatest"]]
    /\ UnchangedStore /\ UnchangedPredictions /\ UnchangedML
    /\ UnchangedPipeline

\* Mutant: getRefundStatus asks for a prediction whatever status it read.
GetLatestAlwaysPredicts(r) ==
    /\ req[r].pc = "getLatest"
    /\ \/ req' = [req EXCEPT ![r] = Returned([@ EXCEPT !.rejected = TRUE], None)]
       \/ /\ getLatestTaxProcessingEvent(events, req[r].arg) = {}
          /\ req' = [req EXCEPT ![r] =
                       Returned([@ EXCEPT !.readAt = nextEventId], Some(NotFoundStatus))]
       \/ \E e \in getLatestTaxProcessingEvent(events, req[r].arg) :
            LET q == [req[r] EXCEPT !.latestEvent = Some(e), !.readAt = nextEventId] IN
            req' = [req EXCEPT ![r] = [q EXCEPT !.pc = "pGetTaxFile"]]
    /\ UnchangedStore /\ UnchangedPredictions /\ UnchangedML
    /\ UnchangedPipeline

\* getRefundStatus: await dbService.getLatestTaxProcessingEvent, and the
\* switch up to the next await
GetLatest(r) ==
    /\ req[r].pc = "getLatest"
    /\ \/ req' = [req EXCEPT ![r] = Returned([@ EXCEPT !.rejected = TRUE], None)]  \* rejects
       \/ /\ getLatestTaxProcessingEvent(events, req[r].arg) = {}
          /\ req' = [req EXCEPT ![r] =
                       Returned([@ EXCEPT !.readAt = nextEventId], Some(NotFoundStatus))]
       \/ \E e \in getLatestTaxProcessingEvent(events, req[r].arg) :
            LET q == [req[r] EXCEPT !.latestEvent = Some(e), !.readAt = nextEventId] IN
            req' = [req EXCEPT ![r] =
                      IF e.NewStatus = "Processing"
                      THEN [q EXCEPT !.pc = "pGetTaxFile"]
                      ELSE Returned(q, Some(SwitchStatus(q.taxFile[1], e)))]
    /\ UnchangedStore /\ UnchangedPredictions /\ UnchangedML
    /\ UnchangedPipeline

\* predictRefundAvailability: await dbService.getTaxFileById
PGetTaxFile(r) ==
    /\ req[r].pc = "pGetTaxFile"
    /\ \/ req' = [req EXCEPT ![r] = PredictionFailed([@ EXCEPT !.rejected = TRUE])] \* rejects
       \/ LET tf == getTaxFileById(taxFiles, req[r].arg) IN
          req' = [req EXCEPT ![r] =
                    IF tf = None THEN PredictionFailed(@)     \* throw, caught
                    ELSE [@ EXCEPT !.pTaxFile = tf, !.pc = "pGetLatest"]]
    /\ UnchangedStore /\ UnchangedPredictions /\ UnchangedML
    /\ UnchangedPipeline

\* Mutant: the prediction step goes on whatever status it read.
PGetLatestNoRecheck(r) ==
    /\ req[r].pc = "pGetLatest"
    /\ \/ req' = [req EXCEPT ![r] = PredictionFailed([@ EXCEPT !.rejected = TRUE])]
       \/ /\ getLatestTaxProcessingEvent(events, req[r].arg) = {}
          /\ req' = [req EXCEPT ![r] = Predicted([@ EXCEPT !.pStatus = Some(Null)], None)]
       \/ \E e \in getLatestTaxProcessingEvent(events, req[r].arg) :
            req' = [req EXCEPT ![r] =
                      [@ EXCEPT !.pStatus = Some(e.NewStatus), !.pEvent = Some(e),
                                !.pc = "pHealth"]]
    /\ UnchangedStore /\ UnchangedPredictions /\ UnchangedML
    /\ UnchangedPipeline

\* predictRefundAvailability: await dbService.getLatestTaxProcessingEvent
PGetLatest(r) ==
    /\ req[r].pc = "pGetLatest"
    /\ \/ req' = [req EXCEPT ![r] = PredictionFailed([@ EXCEPT !.rejected = TRUE])] \* rejects
       \/ /\ getLatestTaxProcessingEvent(events, req[r].arg) = {}
          /\ req' = [req EXCEPT ![r] = Predicted([@ EXCEPT !.pStatus = Some(Null)], None)]
       \/ \E e \in getLatestTaxProcessingEvent(events, req[r].arg) :
            LET q == [req[r] EXCEPT !.pStatus = Some(e.NewStatus)] IN
            req' = [req EXCEPT ![r] =
                      IF e.NewStatus # "Processing"
                      THEN Predicted(q, None)
                      ELSE [q EXCEPT !.pEvent = Some(e), !.pc = "pHealth"]]
    /\ UnchangedStore /\ UnchangedPredictions /\ UnchangedML
    /\ UnchangedPipeline

\* predictRefundAvailability: await mlIntegration.checkMLApiHealth
PHealth(r) ==
    /\ req[r].pc = "pHealth"
    /\ \E response \in HealthResponses(mlUp, mlVersion) :
         LET h == checkMLApiHealth(response)
             q == [req[r] EXCEPT !.healthResp = response, !.health = Some(h)] IN
         req' = [req EXCEPT ![r] =
                   IF ~h THEN Predicted(q, NoPrediction(q.pTaxFile[1]))
                   ELSE [q EXCEPT !.pc = "pPredict"]]
    /\ UnchangedStore /\ UnchangedPredictions /\ UnchangedML
    /\ UnchangedPipeline

\* predictRefundAvailability: await mlIntegration.getPrediction
PPredict(r) ==
    /\ req[r].pc = "pPredict"
    /\ \E m \in getPrediction(mlUp, mlVersion) :
         LET q == [req[r] EXCEPT
                     !.ml = m,
                     !.sent = Some(PredictionRequest(
                         req[r].pTaxFile[1].FilingType, req[r].pTaxFile[1].TaxYear,
                         req[r].pTaxFile[1].ClaimedRefundAmount,
                         req[r].pTaxFile[1].GeographicRegion,
                         processingCenterOrUnknown(req[r].pEvent[1].ProcessingCenter)))]
         IN
         req' = [req EXCEPT ![r] =
                   IF m = None THEN Predicted(q, NoPrediction(q.pTaxFile[1]))
                   ELSE [q EXCEPT !.pc = "pStore"]]
    /\ UnchangedStore /\ UnchangedPredictions /\ UnchangedML
    /\ UnchangedPipeline

\* predictRefundAvailability: await dbService.createTaxRefundPrediction, return
PStore(r) ==
    /\ req[r].pc = "pStore"
    /\ LET q == req[r]
           result == PredictionResult(q.ml[1])
           row == createTaxRefundPrediction(nextPredId, q.arg, result.confidenceScore,
                                            result.predictedDate,
                                            InputFeatures(q.pTaxFile[1]))
       IN
       \/ /\ req' = [req EXCEPT ![r] = PredictionFailed(@)]   \* the INSERT rejects
          /\ UnchangedPredictions
       \/ /\ predictions' = predictions \cup {row}
          /\ nextPredId' = nextPredId + 1
          /\ served' = served \cup
                {[PredictionID |-> row.PredictionID, response |-> q.ml[1],
                  request |-> q.sent[1]]}
          /\ req' = [req EXCEPT ![r] =
                       Predicted([@ EXCEPT !.predId = Some(row.PredictionID)],
                                 Some(result))]
    /\ UnchangedStore /\ UnchangedML /\ UnchangedPipeline

\* getActionGuidance: actionGuidanceService.getActionGuidance is called and
\* awaits queryKnowledgeBase; a throw becomes the controller's 500
Guide(r) ==
    /\ req[r].pc = "guide"
    /\ \E response \in KbResponses :
         LET q == [req[r] EXCEPT !.guided = TRUE, !.kb = Some(response)] IN
         req' = [req EXCEPT ![r] =
                   IF queryKnowledgeBase(response) = None
                   THEN [q EXCEPT !.pc = "done", !.resp = Some(InternalError)]
                   ELSE [q EXCEPT !.pc = "generate"]]
    /\ UnchangedStore /\ UnchangedPredictions /\ UnchangedML
    /\ UnchangedPipeline

\* getActionGuidance: await generatePersonalizedGuidance, then the response
Generate(r) ==
    /\ req[r].pc = "generate"
    /\ \E answer \in LlmAnswers :
         LET guidance == generatePersonalizedGuidance(answer) IN
         req' = [req EXCEPT ![r] =
                   [@ EXCEPT !.llm = Some(answer), !.pc = "done",
                             !.resp = IF guidance = None
                                      THEN Some(InternalError)
                                      ELSE Some(Response(200, guidance[1]))]]
    /\ UnchangedStore /\ UnchangedPredictions /\ UnchangedML
    /\ UnchangedPipeline

\* GET /api/users/:userId/tax-filings arrives.
StartFilings(r, userId) ==
    /\ req[r].pc = "idle"
    /\ req' = [req EXCEPT ![r] = [IdleReq EXCEPT !.kind = "filings", !.arg = userId,
                                                 !.pc = "getUser"]]
    /\ UnchangedStore /\ UnchangedPredictions /\ UnchangedML
    /\ UnchangedPipeline

UserNotFound == Response(404, [error |-> "User not found"])

\* clientUI: api.getTaxFilings returns the body, [] when the call failed;
\* UserDashboard.fetchTaxFilings selects the first filing of the list.
ClientSelect(resp) ==
    LET data == IF resp.code = 200 THEN resp.body ELSE <<>> IN
    IF Len(data) > 0 THEN data[1].TaxFileID ELSE ""

Answer(q, resp) ==
    [q EXCEPT !.pc = "done", !.resp = Some(resp), !.selected = ClientSelect(resp)]

\* getTaxFilings: await dbService.getUserById
GetUser(r) ==
    /\ req[r].pc = "getUser"
    /\ \/ req' = [req EXCEPT ![r] = Answer([@ EXCEPT !.rejected = TRUE], InternalError)]  \* rejects
       \/ req' = [req EXCEPT ![r] =
                    IF getUserById(users, @.arg) = None
                    THEN Answer(@, UserNotFound)
                    ELSE [@ EXCEPT !.pc = "getFilings"]]
    /\ UnchangedStore /\ UnchangedPredictions /\ UnchangedML
    /\ UnchangedPipeline

\* getTaxFilings: await refundStatusService.getTaxFilings, which awaits
\* dbService.getTaxFilesByUserId and returns [] when it rejects
GetFilings(r) ==
    /\ req[r].pc = "getFilings"
    /\ \/ req' = [req EXCEPT ![r] =                          \* the query rejects
                    Answer([@ EXCEPT !.rejected = TRUE], Response(200, <<>>))]
       \/ \E rows \in getTaxFilesByUserId(taxFiles, req[r].arg) :
            req' = [req EXCEPT ![r] = Answer(@, Response(200, rows))]
    /\ UnchangedStore /\ UnchangedPredictions /\ UnchangedML
    /\ UnchangedPipeline

\* GET /api/refund-status/:taxFileId/history arrives.
StartHistory(r, taxFileId) ==
    /\ req[r].pc = "idle"
    /\ req' = [req EXCEPT ![r] = [IdleReq EXCEPT !.kind = "history", !.arg = taxFileId,
                                                 !.pc = "getHistory"]]
    /\ UnchangedStore /\ UnchangedPredictions /\ UnchangedML
    /\ UnchangedPipeline

\* getRefundStatusHistory: await refundStatusService.getRefundStatusHistory,
\* which awaits dbService.getTaxProcessingEvents and returns [] when it rejects
GetHistory(r) ==
    /\ req[r].pc = "getHistory"
    /\ \/ req' = [req EXCEPT ![r] =                          \* the query rejects
                    [@ EXCEPT !.rejected = TRUE, !.readAt = nextEventId,
                              !.pc = "done", !.resp = Some(Response(200, <<>>))]]
       \/ \E rows \in getTaxProcessingEvents(events, req[r].arg) :
            req' = [req EXCEPT ![r] =
                      [@ EXCEPT !.readAt = nextEventId, !.pc = "done",
                                !.resp = Some(Response(200, rows))]]
    /\ UnchangedStore /\ UnchangedPredictions /\ UnchangedML
    /\ UnchangedPipeline

-----------------------------------------------------------------------------
(* The environment: the IRS feed and the model lifecycle *)

\* A processing event is inserted into TaxProcessingEvents.
InsertEvent(file, shape, day) ==
    /\ nextEventId <= MaxEvents
    /\ events' = events \cup {EventRow(nextEventId, file, shape, day)}
    /\ nextEventId' = nextEventId + 1
    /\ UNCHANGED <<users, taxFiles, req>>
    /\ UnchangedPredictions /\ UnchangedML /\ UnchangedPipeline

\* host_ml_model.sh starts the ML API (it exits when no trained model is on
\* disk) / the API process stops.
MLStart ==
    /\ ~mlUp
    /\ mlVersion # 0
    /\ mlUp' = TRUE
    /\ UNCHANGED <<mlVersion, req>> /\ UnchangedStore /\ UnchangedPredictions
    /\ UnchangedPipeline

MLStop ==
    /\ mlUp
    /\ mlUp' = FALSE
    /\ UNCHANGED <<mlVersion, req>> /\ UnchangedStore /\ UnchangedPredictions
    /\ UnchangedPipeline

\* The scheduled pipeline trains the next model version, which the API then
\* serves.
Retrain ==
    /\ NextModelVersion(models) <= MaxVersion
    /\ models' = train(models)
    /\ mlVersion' = NextModelVersion(models)
    /\ UNCHANGED <<mlUp, req, cleanup, client, decisions, run>>
    /\ UnchangedStore /\ UnchangedPredictions

\* cleanup_models.sh, "Remove model files": rm -f of the versioned and the
\* latest model files; under set -e a failing rm ends the script here.
CleanupFiles ==
    /\ cleanup \in {"idle", "done", "failed"}
    /\ \/ mlVersion' = 0 /\ cleanup' = "rows"
       \/ mlVersion' = mlVersion /\ cleanup' = "failed"
    /\ UNCHANGED <<mlUp, req, run, models, decisions, client>>
    /\ UnchangedStore /\ UnchangedPredictions

\* cleanup_models.sh, "Clean up database entries": sqlite3 deletes the rows
\* of MLModels, ModelPerformance, FeatureDrift and RetrainingDecisions, or
\* fails and set -e ends the script.
CleanupRows ==
    /\ cleanup = "rows"
    /\ \/ /\ models' = cleanupModels(models)
          /\ decisions' = <<>>
          /\ cleanup' = "done"
       \/ /\ UNCHANGED <<models, decisions>>
          /\ cleanup' = "failed"
    /\ UNCHANGED <<mlUp, mlVersion, req, run, client>>
    /\ UnchangedStore /\ UnchangedPredictions

\* main_new.py --mode monitor records a retraining decision.
Decide(elapsedDays, accuracy, worsening, driftDetected) ==
    /\ Len(decisions) < MaxDecisions
    /\ decisions' = Append(decisions,
                           decide(elapsedDays, accuracy, worsening, driftDetected))
    /\ UNCHANGED <<models, run, req, cleanup, client>>
    /\ UnchangedStore /\ UnchangedPredictions /\ UnchangedML

-----------------------------------------------------------------------------
(* clientUI: App.tsx (UserDashboard, RefundStatus), RefundStatusHistory.tsx *)

ClientUser == "user-001"

UnchangedService ==
    UNCHANGED <<users, taxFiles, events, nextEventId, predictions, nextPredId,
                served, mlUp, mlVersion, req, models, decisions, run, cleanup>>

\* An api call awaiting its answer
Fetch(kind, taxFileId, n) == [kind |-> kind, taxFileId |-> taxFileId, n |-> n]

\* The effects of RefundStatus and RefundStatusHistory run for a new
\* taxFileId prop: each calls setLoading(true) and its api function.
StartFetches(c, taxFileId) ==
    [c EXCEPT !.status = [@ EXCEPT !.loading = TRUE],
              !.history = [@ EXCEPT !.loading = TRUE],
              !.fetches = @ \cup {Fetch("status", taxFileId, c.nextFetch),
                                  Fetch("history", taxFileId, c.nextFetch)},
              !.nextFetch = @ + 1]

\* UserDashboard mounts: fetchTaxFilings calls setLoading(true) and getTaxFilings.
MountDashboard ==
    /\ ~client.opened
    /\ client' = [client EXCEPT !.opened = TRUE, !.loading = TRUE]
    /\ UnchangedService

\* fetchTaxFilings after its await: setTaxFilings, the first filing is
\* selected, setLoading(false); the components mount for the selection.
fetchTaxFilings ==
    /\ client.opened /\ client.loading
    /\ \E data \in getTaxFilesByUserId(taxFiles, ClientUser) \cup {<<>>} :
         LET sel == ClientSelect(Response(200, data))
             c == [client EXCEPT !.loading = FALSE,
                                 !.taxFilings = [i \in DOMAIN data |-> data[i].TaxFileID],
                                 !.selected = sel]
         IN client' = IF sel = "" THEN c ELSE StartFetches(c, sel)
    /\ UnchangedService

\* handleTaxFilingChange: the user picks another filing of the selector.
handleTaxFilingChange(taxFileId) ==
    /\ client.opened /\ ~client.loading
    /\ \E i \in DOMAIN client.taxFilings : client.taxFilings[i] = taxFileId
    /\ taxFileId # client.selected
    /\ client.nextFetch <= MaxFetches
    /\ client' = StartFetches([client EXCEPT !.selected = taxFileId], taxFileId)
    /\ UnchangedService

\* RefundStatus.fetchStatus after its await: setStatus(data), setLoading(false)
fetchStatus(fetch, ok) ==
    /\ fetch \in client.fetches /\ fetch.kind = "status"
    /\ client' = [client EXCEPT
                    !.status = [loading |-> FALSE,
                                data |-> IF ok THEN fetch.taxFileId ELSE Null],
                    !.fetches = @ \ {fetch}]
    /\ UnchangedService

\* RefundStatusHistory.fetchHistory after its await: setEvents(data),
\* setLoading(false)
fetchHistory(fetch, ok) ==
    /\ fetch \in client.fetches /\ fetch.kind = "history"
    /\ client' = [client EXCEPT
                    !.history = [loading |-> FALSE,
                                 data |-> IF ok THEN fetch.taxFileId ELSE Null],
                    !.fetches = @ \ {fetch}]
    /\ UnchangedService

-----------------------------------------------------------------------------
(* train_ml_model.sh: one step per command of the script *)

IdleRun == [pc |-> "idle", failed |-> FALSE]
Runs == DOMAIN run

\* The command that follows a command of the script.
NextStep(step) ==
    CASE step = "setup" -> "initdb"
      [] step = "initdb" -> "sample"
      [] step = "sample" -> "etl"
      [] step = "etl" -> "monitor"
      [] step = "monitor" -> "train"
      [] step = "train" -> "done"

\* Mutant: the script without `set -e` goes on after a failed command.
StepAfterNoErrexit(step, ok) == NextStep(step)

\* `set -e`: the script exits at the first command that fails.
StepAfter(step, ok) == IF ok THEN NextStep(step) ELSE "failed"

\* The run after its current command finished (ok) or failed.
Advance(u, ok) == [pc |-> StepAfter(u.pc, ok), failed |-> u.failed \/ ~ok]

\* The operational store after db/sample_data.sql.
SampleEvents ==
    {EventRow(0, "taxfile-001", EventShape("Processing", Null, "Northeast Center"), 1)}

SamplePredictions ==
    {[PredictionID |-> 0, TaxFileID |-> "taxfile-002", ConfidenceScore |-> 85,
      ModelVersion |-> "v1.0", PredictedAvailabilityDate |-> [date |-> Now],
      InputFeatures |-> [filingType |-> "Individual", taxYear |-> 2024,
                         region |-> "Northeast", amount |-> 1800]]}

\* The script starts: directories, virtualenv, dependencies, analytics schema
\* (CREATE TABLE IF NOT EXISTS).
RunStart(r) ==
    /\ run[r].pc = "idle"
    /\ \E ok \in BOOLEAN :
         run' = [run EXCEPT ![r] = Advance([@ EXCEPT !.pc = "setup"], ok)]
    /\ UNCHANGED <<req, cleanup, client, models, decisions>>
    /\ UnchangedStore /\ UnchangedPredictions /\ UnchangedML

\* npm run init-db, initDb: the database file is removed and a new database
\* is created from db/schema.sql.
InitDbUnlink(r) ==
    /\ run[r].pc = "initdb"
    /\ \E ok \in BOOLEAN : run' = [run EXCEPT ![r] = Advance(@, ok)]
    /\ users' = {} /\ taxFiles' = {} /\ events' = {} /\ predictions' = {}
    /\ UNCHANGED <<nextEventId, nextPredId, served, req, cleanup, client, models, decisions>>
    /\ UnchangedML

\* initDb: db/sample_data.sql is executed.
InitDbSample(r) ==
    /\ run[r].pc = "sample"
    /\ \/ /\ run' = [run EXCEPT ![r] = Advance(@, TRUE)]
          /\ users' = UserIds /\ taxFiles' = SampleTaxFiles
          /\ events' = SampleEvents /\ predictions' = SamplePredictions
       \/ /\ run' = [run EXCEPT ![r] = Advance(@, FALSE)]
          /\ UNCHANGED <<users, taxFiles, events, predictions>>
    /\ UNCHANGED <<nextEventId, nextPredId, served, req, cleanup, client, models, decisions>>
    /\ UnchangedML

\* main_new.py --mode etl
Etl(r) ==
    /\ run[r].pc = "etl"
    /\ \E ok \in BOOLEAN : run' = [run EXCEPT ![r] = Advance(@, ok)]
    /\ UNCHANGED <<req, cleanup, client, models, decisions>>
    /\ UnchangedStore /\ UnchangedPredictions /\ UnchangedML

\* main_new.py --mode monitor
Monitor(r, elapsedDays, accuracy, worsening, driftDetected) ==
    /\ run[r].pc = "monitor"
    /\ \/ /\ Len(decisions) < MaxDecisions
          /\ run' = [run EXCEPT ![r] = Advance(@, TRUE)]
          /\ decisions' = Append(decisions,
                                 decide(elapsedDays, accuracy, worsening, driftDetected))
       \/ /\ run' = [run EXCEPT ![r] = Advance(@, FALSE)]
          /\ UNCHANGED decisions
    /\ UNCHANGED <<req, cleanup, client, models>>
    /\ UnchangedStore /\ UnchangedPredictions /\ UnchangedML

\* main_new.py --mode train
Train(r) ==
    /\ run[r].pc = "train"
    /\ \/ /\ NextModelVersion(models) <= MaxVersion
          /\ run' = [run EXCEPT ![r] = Advance(@, TRUE)]
          /\ models' = train(models)
          /\ mlVersion' = NextModelVersion(models)
       \/ /\ run' = [run EXCEPT ![r] = Advance(@, FALSE)]
          /\ UNCHANGED <<models, mlVersion>>
    /\ UNCHANGED <<mlUp, req, cleanup, client, decisions>>
    /\ UnchangedStore /\ UnchangedPredictions

-----------------------------------------------------------------------------
(* Specifications *)

\* Status and guidance lookups, one request at a time, while events arrive
\* for taxfile-001 and the ML API starts and stops.  taxfile-002 was approved
\* on the last day.
Init ==
    /\ users = UserIds
    /\ taxFiles = SampleTaxFiles
    /\ events = {EventRow(0, "taxfile-002",
                          EventShape("Approved", Null, "West Center"), MaxDay)}
    /\ nextEventId = 1
    /\ predictions = {}
    /\ nextPredId = 1
    /\ served = {}
    /\ mlUp \in BOOLEAN
    /\ mlVersion = 1
    /\ req = [r \in {1} |-> IdleReq]
    /\ models = {MLModelRow(1, TRUE)}
    /\ decisions = <<>>
    /\ run = <<>>
    /\ cleanup = "idle"
    /\ client = IdleClient

Next ==
    \/ \E r \in Slots, kind \in {"status", "guidance"},
          f \in FileIds \cup {UnknownFile} : Start(r, kind, f)
    \/ \E r \in Slots : GetTaxFile(r)
    \/ \E r \in Slots : GetLatest(r)
    \/ \E r \in Slots : PGetTaxFile(r)
    \/ \E r \in Slots : PGetLatest(r)
    \/ \E r \in Slots : PHealth(r)
    \/ \E r \in Slots : PPredict(r)
    \/ \E r \in Slots : PStore(r)
    \/ \E r \in Slots : Guide(r)
    \/ \E r \in Slots : Generate(r)
    \/ \E r \in Slots, f \in FileIds \cup {UnknownFile} : StartHistory(r, f)
    \/ \E r \in Slots : GetHistory(r)
    \/ \E r \in Slots, u \in UserIds \cup {UnknownUser} : StartFilings(r, u)
    \/ \E r \in Slots : GetUser(r)
    \/ \E r \in Slots : GetFilings(r)
    \/ \E shape \in EventShapes, day \in Days : InsertEvent("taxfile-001", shape, day)
    \/ MLStart
    \/ MLStop

Spec == Init /\ [][Next]_vars

\* Concurrent status lookups of a filing that is in 'Processing', while the
\* ML API starts, stops and is retrained.
InitPredict ==
    /\ users = UserIds
    /\ taxFiles = SampleTaxFiles
    /\ \E center \in {"Northeast Center", Null} :
         events = {EventRow(0, "taxfile-001",
                            EventShape("Processing", Null, center), 1)}
    /\ nextEventId = 1
    /\ predictions = {}
    /\ nextPredId = 1
    /\ served = {}
    /\ mlUp \in BOOLEAN
    /\ mlVersion = 1
    /\ req = [r \in 1..NumReq |-> IdleReq]
    /\ models = {MLModelRow(1, TRUE)}
    /\ decisions = <<>>
    /\ run = <<>>
    /\ cleanup = "idle"
    /\ client = IdleClient

NextPredict ==
    \/ \E r \in Slots : Start(r, "status", "taxfile-001")
    \/ \E r \in Slots : GetTaxFile(r)
    \/ \E r \in Slots : GetLatest(r)
    \/ \E r \in Slots : PGetTaxFile(r)
    \/ \E r \in Slots : PGetLatest(r)
    \/ \E r \in Slots : PHealth(r)
    \/ \E r \in Slots : PPredict(r)
    \/ \E r \in Slots : PStore(r)
    \/ MLStart
    \/ MLStop
    \/ Retrain
    \/ CleanupFiles
    \/ CleanupRows

SpecPredict == InitPredict /\ [][NextPredict]_vars

\* The same, with every awaited call of a request eventually answered or
\* timed out: the event loop runs the continuation of each await.
SpecPredictFair ==
    /\ SpecPredict
    /\ \A r \in 1..NumReq :
          /\ WF_vars(GetTaxFile(r)) /\ WF_vars(GetLatest(r))
          /\ WF_vars(PGetTaxFile(r)) /\ WF_vars(PGetLatest(r))
          /\ WF_vars(PHealth(r)) /\ WF_vars(PPredict(r)) /\ WF_vars(PStore(r))

\* Filings listings over every TaxFiles table drawn from FilingPool.
InitFilings ==
    /\ users = UserIds
    /\ taxFiles \in SUBSET FilingPool
    /\ events = {}
    /\ nextEventId = 1
    /\ predictions = {}
    /\ nextPredId = 1
    /\ served = {}
    /\ mlUp = FALSE
    /\ mlVersion = 1
    /\ req = [r \in {1} |-> IdleReq]
    /\ models = {MLModelRow(1, TRUE)}
    /\ decisions = <<>>
    /\ run = <<>>
    /\ cleanup = "idle"
    /\ client = IdleClient

NextFilings ==
    \/ \E r \in Slots, u \in UserIds \cup {UnknownUser} : StartFilings(r, u)
    \/ \E r \in Slots : GetUser(r)
    \/ \E r \in Slots : GetFilings(r)

SpecFilings == InitFilings /\ [][NextFilings]_vars

\* Runs of train_ml_model.sh, and cleanup_models.sh, after the service has
\* answered status lookups of a filing that is in 'Processing'.  The service
\* keeps the connection it opened before the database file was replaced, so
\* lookups are taken up to the first run only, and the file is replaced
\* while no lookup is in flight.
InitPipeline ==
    /\ users = UserIds
    /\ taxFiles = SampleTaxFiles
    /\ events = SampleEvents
    /\ nextEventId = 1
    /\ predictions = SamplePredictions
    /\ nextPredId = 1
    /\ served = {}
    /\ mlUp = TRUE
    /\ mlVersion = 1
    /\ req = [r \in {1} |-> IdleReq]
    /\ models = {MLModelRow(1, TRUE)}
    /\ decisions = <<>>
    /\ run = [r \in 1..NumRuns |-> IdleRun]
    /\ cleanup = "idle"
    /\ client = IdleClient

\* The monitoring inputs the runs are checked with.
PipelineInputs == {<<31, 69, FALSE, TRUE>>, <<0, 90, FALSE, FALSE>>}

NextPipeline ==
    \/ \E r \in Slots :
          /\ \A u \in Runs : run[u].pc = "idle"
          /\ Start(r, "status", "taxfile-001")
    \/ \E r \in Slots : GetTaxFile(r)
    \/ \E r \in Slots : GetLatest(r)
    \/ \E r \in Slots : PGetTaxFile(r)
    \/ \E r \in Slots : PGetLatest(r)
    \/ \E r \in Slots : PHealth(r)
    \/ \E r \in Slots : PPredict(r)
    \/ \E r \in Slots : PStore(r)
    \/ \E u \in Runs : RunStart(u)
    \/ \E u \in Runs :
          /\ \A r \in Slots : req[r].pc \in {"idle", "done"}
          /\ InitDbUnlink(u)
    \/ \E u \in Runs : InitDbSample(u)
    \/ \E u \in Runs : Etl(u)
    \/ \E u \in Runs, i \in PipelineInputs : Monitor(u, i[1], i[2], i[3], i[4])
    \/ \E u \in Runs : Train(u)
    \/ CleanupFiles
    \/ CleanupRows
    \/ MLStart
    \/ MLStop

SpecPipeline == InitPipeline /\ [][NextPipeline]_vars

\* The browser with the dashboard of a user who has several filings.
InitClient ==
    /\ users = UserIds
    /\ taxFiles = FilingPool
    /\ events = {}
    /\ nextEventId = 1
    /\ predictions = {}
    /\ nextPredId = 1
    /\ served = {}
    /\ mlUp = FALSE
    /\ mlVersion = 1
    /\ req = [r \in {1} |-> IdleReq]
    /\ models = {MLModelRow(1, TRUE)}
    /\ decisions = <<>>
    /\ run = <<>>
    /\ cleanup = "idle"
    /\ client = IdleClient

NextClient ==
    \/ MountDashboard
    \/ fetchTaxFilings
    \/ \E f \in {t.TaxFileID : t \in FilingPool} : handleTaxFilingChange(f)
    \/ \E f \in {t.TaxFileID : t \in FilingPool}, n \in 1..MaxFetches, ok \in BOOLEAN :
          fetchStatus(Fetch("status", f, n), ok)
    \/ \E f \in {t.TaxFileID : t \in FilingPool}, n \in 1..MaxFetches, ok \in BOOLEAN :
          fetchHistory(Fetch("history", f, n), ok)

SpecClient == InitClient /\ [][NextClient]_vars

\* Retraining decisions over the monitoring results of DecisionInputs.
InitDecide ==
    /\ users = UserIds
    /\ taxFiles = SampleTaxFiles
    /\ events = SampleEvents
    /\ nextEventId = 1
    /\ predictions = SamplePredictions
    /\ nextPredId = 1
    /\ served = {}
    /\ mlUp = FALSE
    /\ mlVersion = 1
    /\ req = [r \in {1} |-> IdleReq]
    /\ models = {MLModelRow(1, TRUE)}
    /\ decisions = <<>>
    /\ run = <<>>
    /\ cleanup = "idle"
    /\ client = IdleClient

NextDecide ==
    \E elapsedDays \in {RetrainIntervalDays - 1, RetrainIntervalDays,
                         RetrainIntervalDays + 1},
       accuracy \in {AccuracyFloor - 1, AccuracyFloor},
       worsening \in BOOLEAN, driftDetected \in BOOLEAN :
        Decide(elapsedDays, accuracy, worsening, driftDetected)

SpecDecide == InitDecide /\ [][NextDecide]_vars

-----------------------------------------------------------------------------
(* Properties *)

Answered(r, kind) == req[r].kind = kind /\ req[r].pc = "done"
Resp(r) == req[r].resp[1]
StatusOK(r) == Answered(r, "status") /\ Resp(r).code = 200

HasEstimate(b) == b.estimatedCompletionDays # None /\ b.estimatedCompletionDate # None
NoEstimate(b) == b.estimatedCompletionDays = None /\ b.estimatedCompletionDate = None

\* a is chronologically later than b
Later(a, b) == a.date > b.date \/ (a.date = b.date /\ a.time > b.time)

\* The events of the request's filing that were in the store when the request
\* read the latest event.
SeenBy(r) == {e \in EventsOf(events, req[r].arg) : e.EventID < req[r].readAt}

\* C1 as stated: every 200 status response whose status is 'Processing'
\* carries both estimatedCompletionDays and estimatedCompletionDate.
C1_AlwaysEstimate ==
    \A r \in Slots :
        (StatusOK(r) /\ Resp(r).body.status = "Processing") => HasEstimate(Resp(r).body)

\* C1 amended: a 'Processing' status response carries both estimate fields,
\* with the values the ML API returned, when predictRefundAvailability
\* returned a prediction (health check ok, predict call answered, record
\* stored), and neither of them when it returned null.
C1_EstimateIffPredicted ==
    \A r \in Slots :
        (StatusOK(r) /\ Resp(r).body.status = "Processing") =>
            /\ req[r].pred # None
            /\ IF req[r].pred[1] = None
               THEN NoEstimate(Resp(r).body)
               ELSE /\ req[r].health = Some(TRUE)
                    /\ req[r].ml # None
                    /\ req[r].predId # None
                    /\ Resp(r).body.estimatedCompletionDays
                         = Some(req[r].ml[1].estimated_days)
                    /\ Resp(r).body.estimatedCompletionDate
                         = Some(req[r].ml[1].predicted_date)

C1_Witness ==
    \E r \in Slots :
        /\ StatusOK(r) /\ Resp(r).body.status = "Processing"
        /\ HasEstimate(Resp(r).body)

C3_NeedsActionAnswered200 ==
    \A r \in Slots :
        (/\ Answered(r, "guidance")
         /\ req[r].latestEvent # None
         /\ req[r].latestEvent[1].NewStatus = "Needs Action"
         /\ ~Falsy(req[r].latestEvent[1].ActionRequired)) =>
            /\ Resp(r).code = 200
            /\ Resp(r).body = ActionGuidance(req[r].llm[1].json[1])

\* C3 amended: the guidance service is called only for a filing whose latest
\* status is 'Needs Action' with a non-empty ActionRequired code; when the
\* status lookup returns nothing (filing missing) the answer is 404, for any
\* other status or an empty code it is 400 without calling the service, and
\* for 'Needs Action' with a code the service is called and the answer is
\* 200 with its guidance, or 500 when the service throws.
C3_GuidanceOnlyForNeedsAction ==
    \A r \in Slots :
        /\ req[r].guided =>
              /\ req[r].latestEvent # None
              /\ req[r].latestEvent[1].NewStatus = "Needs Action"
              /\ req[r].latestEvent[1].ActionRequired \notin {Null, ""}
        /\ Answered(r, "guidance") =>
              /\ (\A f \in taxFiles : f.TaxFileID # req[r].arg) => Resp(r).code = 404
              /\ IF req[r].svc[1] = None
                 THEN Resp(r).code = 404 /\ ~req[r].guided
                 ELSE IF \/ req[r].svc[1][1].status # "Needs Action"
                         \/ req[r].svc[1][1].actionRequired \in {Null, ""}
                 THEN Resp(r).code = 400 /\ ~req[r].guided
                 ELSE /\ req[r].guided
                      /\ \/ Resp(r).code = 500
                         \/ /\ Resp(r).code = 200
                            /\ Resp(r).body =
                                 ActionGuidance(req[r].llm[1].json[1])

C3_Witness ==
    \E r \in Slots :
        /\ Answered(r, "guidance") /\ Resp(r).code = 200 /\ req[r].guided
        /\ req[r].latestEvent[1].NewStatus = "Needs Action"

\* C4: the status, details, lastUpdated and actionRequired reported by
\* getRefundStatus are those of an event of the filing that no event of the
\* filing, in the store when it was read, is later than -- whatever the
\* order the events were inserted in.
C4_LatestByStatusUpdateDate ==
    \A r \in Slots :
        req[r].latestEvent # None =>
            LET e == req[r].latestEvent[1] IN
            /\ e \in SeenBy(r)
            /\ \A o \in SeenBy(r) : ~Later(o.StatusUpdateDate, e.StatusUpdateDate)
            /\ StatusOK(r) =>
                  /\ Resp(r).body.status = e.NewStatus
                  /\ Resp(r).body.details = e.StatusDetails
                  /\ Resp(r).body.lastUpdated = e.StatusUpdateDate
                  /\ Resp(r).body.actionRequired = e.ActionRequired

\* the reported event is not the one inserted last
C4_Witness ==
    \E r \in Slots :
        /\ StatusOK(r) /\ req[r].latestEvent # None
        /\ \E o \in SeenBy(r) :
              /\ o.EventID > req[r].latestEvent[1].EventID
              /\ Later(req[r].latestEvent[1].StatusUpdateDate, o.StatusUpdateDate)
              /\ o.NewStatus # Resp(r).body.status

\* C5: in every status response the estimate fields appear only with status
\* 'Processing', refundAmount and depositDate only with status 'Approved'
\* (refundAmount being the filing's ClaimedRefundAmount), and a
\* 'Needs Action' or 'Not Found' response carries none of the four.
C5_StatusFieldsExclusive ==
    \A r \in Slots :
        StatusOK(r) =>
            LET b == Resp(r).body IN
            /\ (b.estimatedCompletionDays # None \/ b.estimatedCompletionDate # None)
                  => b.status = "Processing"
            /\ (b.refundAmount # None \/ b.depositDate # None)
                  => /\ b.status = "Approved"
                     /\ \E f \in taxFiles :
                           /\ f.TaxFileID = req[r].arg
                           /\ b.refundAmount = Some(f.ClaimedRefundAmount)
            /\ b.status = "Approved"
                  => \E f \in taxFiles :
                        /\ f.TaxFileID = req[r].arg
                        /\ b.refundAmount = Some(f.ClaimedRefundAmount)
            /\ b.status \in {"Needs Action", "Not Found"}
                  => /\ NoEstimate(b)
                     /\ b.refundAmount = None /\ b.depositDate = None

C5_Witness ==
    \E r \in Slots :
        /\ StatusOK(r) /\ Resp(r).body.status = "Approved"
        /\ Resp(r).body.refundAmount # None /\ Resp(r).body.depositDate # None

\* C6 as stated: for an 'Approved' filing depositDate is the calendar-date
\* part of the approval event's StatusUpdateDate and lastUpdated is the full
\* timestamp.
C6_DepositDateIsDatePart ==
    \A r \in Slots :
        (StatusOK(r) /\ Resp(r).body.status = "Approved") =>
            /\ Resp(r).body.depositDate
                 = Some(DatePart(req[r].latestEvent[1].StatusUpdateDate))
            /\ Resp(r).body.lastUpdated = req[r].latestEvent[1].StatusUpdateDate

\* C7 as stated: the status endpoint answers 404 exactly when no TaxFiles row
\* with the id exists.
C7_NotFoundIffNoRow ==
    \A r \in Slots :
        Answered(r, "status") =>
            (Resp(r).code = 404 <=> \A f \in taxFiles : f.TaxFileID # req[r].arg)

\* C9: every call of predictRefundAvailability that returned a prediction has
\* inserted exactly one row, with a PredictionID no other call used, for its
\* filing; every call that returned null has inserted none.
C9_OneRowPerPrediction ==
    /\ \A r \in Slots :
          req[r].pred # None =>
              IF req[r].pred[1] # None
              THEN /\ req[r].predId # None
                   /\ Cardinality({p \in predictions :
                          p.PredictionID = req[r].predId[1]}) = 1
                   /\ \A p \in predictions :
                          p.PredictionID = req[r].predId[1] => p.TaxFileID = req[r].arg
                   /\ \A o \in Slots \ {r} : req[o].predId # req[r].predId
              ELSE req[r].predId = None
    /\ Cardinality(predictions)
         = Cardinality({r \in Slots : req[r].pred # None /\ req[r].pred[1] # None})

\* two calls for the same filing both returned a prediction
C9_Witness ==
    \E r1, r2 \in Slots :
        /\ r1 # r2 /\ req[r1].arg = req[r2].arg
        /\ req[r1].pred # None /\ req[r1].pred[1] # None
        /\ req[r2].pred # None /\ req[r2].pred[1] # None
        /\ Cardinality(predictions) = 2

\* C10 as stated: the ModelVersion of every prediction record is the
\* model_version the ML API returned for that prediction.
C10_StoredVersionIsServedVersion ==
    \A p \in predictions :
        \A s \in served :
            s.PredictionID = p.PredictionID =>
                p.ModelVersion = s.response.model_version

\* C8 as stated: for an existing user the filings endpoint returns all and
\* only that user's filings, ordered by TaxYear descending then DateOfFiling
\* descending, and the client selects the first of them.
C8_AllFilingsInOrder ==
    \A r \in Slots :
        (Answered(r, "filings") /\ Resp(r).code = 200) =>
            LET rows == Resp(r).body
                mine == {f \in taxFiles : f.UserID = req[r].arg}
            IN
            /\ req[r].arg \in users
            /\ {rows[i] : i \in 1..Len(rows)} = mine
            /\ Len(rows) = Cardinality(mine)
            /\ \A i, j \in 1..Len(rows) :
                  i < j =>
                     \/ rows[i].TaxYear > rows[j].TaxYear
                     \/ /\ rows[i].TaxYear = rows[j].TaxYear
                        /\ ~Later(rows[j].DateOfFiling, rows[i].DateOfFiling)
            /\ mine # {} => req[r].selected = rows[1].TaxFileID

\* C11 as stated: every prediction record the service has stored is still in
\* TaxRefundPredictions, with the confidence score it was stored with.
C11_StoredPredictionsKept ==
    \A s \in served :
        \E p \in predictions :
            /\ p.PredictionID = s.PredictionID
            /\ p.ConfidenceScore = s.response.confidence_score

\* C16 as stated: at most one run of train_ml_model.sh is between its first
\* and its last command at any time.
C16_RunsSerialized ==
    Cardinality({u \in Runs : run[u].pc \notin {"idle", "done", "failed"}}) <= 1

\* C12 as stated: once the health response of a request says that no model
\* is loaded, the request asks the ML API for no prediction and its status
\* response carries no estimate.
C12_NoModelLoadedNoPredict ==
    \A r \in Slots :
        (req[r].healthResp # None /\ ~req[r].healthResp[1].model_loaded) =>
            /\ req[r].pc \notin {"pPredict", "pStore"}
            /\ req[r].ml = None
            /\ StatusOK(r) => NoEstimate(Resp(r).body)

\* C13 as stated: a status, history or filings request one of whose store
\* reads rejected is answered with an error status, neither 404 nor a 200
\* with a status or a list.
C13_ReadFailureIsSignalled ==
    \A r \in Slots :
        (req[r].pc = "done" /\ req[r].rejected
            /\ req[r].kind \in {"status", "history", "filings"}) =>
                Resp(r).code \notin {200, 404}

\* C19 as stated: the history endpoint answers 200 with every processing
\* event of the filing that was in the store and only those, ordered by
\* StatusUpdateDate ascending; the list is empty for a filing without events
\* and for an unknown filing id.
C19_HistoryAllEventsAscending ==
    \A r \in Slots :
        Answered(r, "history") =>
            LET rows == Resp(r).body IN
            /\ Resp(r).code = 200
            /\ {rows[i] : i \in 1..Len(rows)} = SeenBy(r)
            /\ Len(rows) = Cardinality(SeenBy(r))
            /\ \A i, j \in 1..Len(rows) :
                  i < j => ~Later(rows[i].StatusUpdateDate, rows[j].StatusUpdateDate)

\* run u completes its training step successfully in this step
TrainedBy(u) == run[u].pc = "train" /\ run'[u].pc = "done" /\ ~run'[u].failed

ExactlyOneActiveNewest(ms) ==
    /\ Cardinality(ActiveModels(ms)) = 1
    /\ \A a \in ActiveModels(ms) : \A m \in ms : m.ModelVersion <= a.ModelVersion

C17_RecommendedIsOrOfTriggers ==
    \A i \in 1..Len(decisions) :
        LET d == decisions[i] IN
        /\ d.RetrainingRecommended =
              (d.ScheduleBasedRetraining \/ d.PerformanceBasedRetraining
                  \/ d.DriftBasedRetraining)
        /\ ("schedule" \in d.RecommendationReason) = d.ScheduleBasedRetraining
        /\ ("performance" \in d.RecommendationReason) = d.PerformanceBasedRetraining
        /\ ("drift" \in d.RecommendationReason) = d.DriftBasedRetraining

\* a decision with more than one trigger, and one with none
C17_Witness ==
    /\ \E i \in 1..Len(decisions) :
          /\ decisions[i].ScheduleBasedRetraining
          /\ decisions[i].DriftBasedRetraining
          /\ decisions[i].RetrainingRecommended
    /\ \E i \in 1..Len(decisions) : ~decisions[i].RetrainingRecommended

\* C18: every status request that has started is eventually answered,
\* whether or not the ML API answers the health check or the predict call.
C18_EveryRequestCompletes ==
    \A r \in 1..NumReq : (req[r].pc # "idle") ~> (req[r].pc = "done")

\* a request was answered although the health check got no answer
C18_Witness ==
    \E r \in Slots :
        /\ Answered(r, "status") /\ req[r].healthResp = None
        /\ req[r].health = Some(FALSE) /\ ~mlUp

\* The input feature values of a prediction request.
SentFeatures(request) ==
    [filingType |-> request.filing_type, taxYear |-> request.tax_year,
     amount |-> request.refund_amount, region |-> request.geographic_region,
     processingCenter |-> request.processing_center,
     filingPeriod |-> request.filing_period,
     sourceStatus |-> request.source_status,
     targetStatus |-> request.target_status]

\* C20 as stated: the InputFeatures of every prediction record are the input
\* feature values sent to the model for that prediction: filing type, tax
\* year, refund amount, region, processing center, filing period, source and
\* target status.
C20_StoredFeaturesAreSentFeatures ==
    \A p \in predictions :
        \A s \in served :
            s.PredictionID = p.PredictionID =>
                p.InputFeatures = SentFeatures(s.request)

\* C21: every prediction request a status lookup sent carries the filing
\* type, tax year, refund amount and region of the filing's TaxFiles row and
\* the processing center of its latest event, 'Unknown' when that is missing,
\* with source_status 'Processing' and target_status 'Approved'; it was sent
\* only after the prediction step read 'Processing' as the latest status.
C21_PredictionRequestFields ==
    \A r \in Slots :
        req[r].sent # None =>
            LET body == req[r].sent[1] IN
            /\ req[r].pStatus = Some("Processing")
            /\ \E f \in taxFiles :
                  /\ f.TaxFileID = req[r].arg
                  /\ body.filing_type = f.FilingType
                  /\ body.tax_year = f.TaxYear
                  /\ body.refund_amount = f.ClaimedRefundAmount
                  /\ body.geographic_region = f.GeographicRegion
            /\ \E e \in EventsOf(events, req[r].arg) :
                  /\ e.NewStatus = "Processing"
                  /\ body.processing_center =
                        (IF e.ProcessingCenter \in {Null, ""} THEN "Unknown"
                         ELSE e.ProcessingCenter)
            /\ body.processing_center \notin {Null, ""}
            /\ body.source_status = "Processing"
            /\ body.target_status = "Approved"

\* a request was sent for a filing whose event has no processing center
C21_Witness ==
    \E r \in Slots :
        /\ req[r].sent # None
        /\ req[r].sent[1].processing_center = "Unknown"
        /\ req[r].pEvent[1].ProcessingCenter = Null

\* the status lookup read 'Processing' as the latest status
ReadProcessing(r) ==
    /\ req[r].kind = "status" /\ req[r].latestEvent # None
    /\ req[r].latestEvent[1].NewStatus = "Processing"

\* C22: a status lookup that read 'Processing' is answered 200 with that
\* event's status, details, lastUpdated and actionRequired whatever happens
\* in the prediction path, and without estimate fields when the prediction
\* path gave no prediction.
C22_PredictionFailureKeepsStatus ==
    \A r \in Slots :
        (ReadProcessing(r) /\ req[r].pc = "done") =>
            LET e == req[r].latestEvent[1]
                b == Resp(r).body
            IN
            /\ Resp(r).code = 200
            /\ b.status = "Processing" /\ b.details = e.StatusDetails
            /\ b.lastUpdated = e.StatusUpdateDate
            /\ b.actionRequired = e.ActionRequired
            /\ (req[r].health = Some(FALSE) \/ req[r].ml = None \/ req[r].predId = None)
                  => NoEstimate(b)

\* the ML API answered and the insert of the prediction record failed
C22_Witness ==
    \E r \in Slots :
        /\ ReadProcessing(r) /\ req[r].pc = "done"
        /\ req[r].ml # None /\ req[r].predId = None
        /\ Resp(r).code = 200 /\ NoEstimate(Resp(r).body)

\* C28: every call of predictRefundAvailability that has ended resolved to a
\* value; it resolved to null when the filing was missing, a store read
\* rejected, the ML API gave nothing or the insert failed; and it resolved to
\* an estimate only with that estimate's record in TaxRefundPredictions.
C28_PredictNeverRejects ==
    \A r \in Slots :
        (ReadProcessing(r) /\ req[r].pc = "done") =>
            /\ req[r].pred # None
            /\ (req[r].rejected \/ req[r].health = Some(FALSE) \/ req[r].ml = None
                    \/ req[r].predId = None) => req[r].pred[1] = None
            /\ req[r].pred[1] # None =>
                  /\ req[r].predId # None
                  /\ \E p \in predictions :
                        /\ p.PredictionID = req[r].predId[1]
                        /\ p.PredictedAvailabilityDate = req[r].pred[1][1].predictedDate

\* a store read inside predictRefundAvailability rejected
C28_Witness ==
    \E r \in Slots :
        /\ ReadProcessing(r) /\ req[r].pc = "done"
        /\ req[r].rejected /\ req[r].pred = Some(None)

\* C24: a status response carries an estimate only when the second read of
\* the latest event, inside predictRefundAvailability, saw 'Processing'; when
\* the second read saw another status the response reports the status of
\* the first read without estimate fields, no prediction request is sent and
\* no prediction record is written.
C24_EstimateOnlyIfSecondReadProcessing ==
    \A r \in Slots :
        /\ (StatusOK(r) /\ ~NoEstimate(Resp(r).body)) =>
              req[r].pStatus = Some("Processing")
        /\ (req[r].pStatus # None /\ req[r].pStatus # Some("Processing")) =>
              /\ req[r].sent = None /\ req[r].predId = None
              /\ req[r].pc = "done"
              /\ req[r].kind = "status" =>
                    /\ Resp(r).code = 200
                    /\ Resp(r).body.status = req[r].latestEvent[1].NewStatus
                    /\ NoEstimate(Resp(r).body)

\* an 'Approved' event with a later date arrived between the two reads
C24_Witness ==
    \E r \in Slots :
        /\ StatusOK(r) /\ req[r].latestEvent # None
        /\ req[r].latestEvent[1].NewStatus = "Processing"
        /\ req[r].pStatus = Some("Approved")
        /\ Resp(r).body.status = "Processing" /\ NoEstimate(Resp(r).body)

\* C23 as stated: in every state of the store, for every filing that has
\* events, the status getRefundStatus reports (the NewStatus of the row
\* getLatestTaxProcessingEvent returns) is the NewStatus of the last row
\* getTaxProcessingEvents returns, also when events share a StatusUpdateDate.
C23_StatusIsLastOfHistory ==
    \A f \in FileIds :
        \A e \in getLatestTaxProcessingEvent(events, f) :
            \A h \in getTaxProcessingEvents(events, f) :
                Len(h) > 0 => e.NewStatus = h[Len(h)].NewStatus

\* C26 as stated: a guidance request answered 400 or 404 had no side effect:
\* whatever the filing's status, it inserted no TaxRefundPredictions row and
\* sent no request to the ML API.
C26_RejectedGuidanceNoSideEffect ==
    \A r \in Slots :
        (Answered(r, "guidance") /\ Resp(r).code \in {400, 404}) =>
            /\ req[r].predId = None
            /\ req[r].sent = None
            /\ req[r].healthResp = None

\* C25: every step of a lookup leaves Users, TaxFiles and
\* TaxProcessingEvents unchanged; a step that changes TaxRefundPredictions is
\* the insert of one row for the request's filing by a getRefundStatus call
\* whose own read and whose prediction-step read both saw 'Processing'.
\* Hence getRefundStatus of a filing read as not 'Processing',
\* getRefundStatusHistory and getTaxFilings change no table.
C25_LookupsWriteOnlyPredictions ==
    [][\A r \in Slots :
         req'[r] # req[r] =>
            /\ users' = users /\ taxFiles' = taxFiles /\ events' = events
            /\ predictions' # predictions =>
                  /\ req[r].kind \in {"status", "guidance"}
                  /\ req[r].latestEvent # None
                  /\ req[r].latestEvent[1].NewStatus = "Processing"
                  /\ req[r].pStatus = Some("Processing")
                  /\ \E row \in predictions' :
                        /\ row \notin predictions
                        /\ row.TaxFileID = req[r].arg
                        /\ predictions' = predictions \cup {row}]_vars

\* a status lookup has inserted its prediction row, the only row of the
\* table, and every other table is as it was at the start
C25_Witness ==
    \E r \in Slots :
        /\ Answered(r, "status")
        /\ req[r].predId # None
        /\ \E row \in predictions :
              /\ row.PredictionID = req[r].predId[1]
              /\ predictions = {row}
        /\ users = UserIds /\ taxFiles = SampleTaxFiles

\* The knowledge base gave no result, the LLM's answer holds no JSON object,
\* or the JSON object lacks one of the four fields or has
\* estimatedResolutionDays 0.
NoUsableGuidance(q) ==
    \/ /\ q.kb # None
       /\ ~q.kb[1].rejects
       /\ \/ q.kb[1].retrievalResults = None
          \/ q.kb[1].retrievalResults = Some(<<>>)
    \/ /\ q.llm # None
       /\ \/ q.llm[1].kind = "noJson"
          \/ /\ q.llm[1].kind = "json"
             /\ LET o == q.llm[1].json[1] IN
                \/ \E k \in DOMAIN o : o[k] = None
                \/ o.estimatedResolutionDays = Some(0)

\* C30: a guidance answered 200 has the four fields explanation, steps,
\* estimatedResolutionDays and resources, each present in and equal to the
\* LLM's JSON answer; an empty knowledge-base result, an answer without a
\* JSON object, or a JSON object lacking a field or with
\* estimatedResolutionDays 0 is answered 500 with the error body alone.
C30_GuidanceCompleteOr500 ==
    \A r \in Slots :
        (Answered(r, "guidance") /\ req[r].guided) =>
            /\ Resp(r).code = 200 =>
                  /\ DOMAIN Resp(r).body =
                        {"explanation", "steps", "estimatedResolutionDays", "resources"}
                  /\ req[r].llm # None /\ req[r].llm[1].kind = "json"
                  /\ \A k \in DOMAIN Resp(r).body :
                        /\ Resp(r).body[k] = req[r].llm[1].json[1][k]
                        /\ Resp(r).body[k] # None
            /\ NoUsableGuidance(req[r]) =>
                  /\ Resp(r).code = 500
                  /\ Resp(r).body = [error |-> "Internal server error"]

\* the LLM answered with every field but estimatedResolutionDays 0 and the
\* request was answered
C30_Witness ==
    \E r \in Slots :
        /\ Answered(r, "guidance") /\ req[r].guided
        /\ req[r].llm # None /\ req[r].llm[1].kind = "json"
        /\ LET o == req[r].llm[1].json[1] IN
           /\ o.estimatedResolutionDays = Some(0)
           /\ o.explanation # None /\ o.steps # None /\ o.resources # None

\* C29 as stated: in every state during or after cleanup_models.sh, a step
\* that failed under set -e included, MLModels rows are present only if the
\* model files are on disk.
C29_CleanupAllOrNothing ==
    cleanup \in {"rows", "failed"} => (models # {} => mlVersion # 0)

\* The newest api call of a kind, for the selected filing, is still awaited.
Awaited(kind) ==
    \E fetch \in client.fetches :
        /\ fetch.kind = kind /\ fetch.taxFileId = client.selected
        /\ fetch.n = client.nextFetch - 1

\* C27 as stated: once a component's loading is false, the data it shows are
\* those of the selected filing (or the api layer's null / [] of a failed
\* call), and while the call for the current selection is awaited the
\* component's loading flag stays set -- whatever answers arrive late for a
\* filing selected before.
C27_ShownIsSelected ==
    /\ ~client.status.loading => client.status.data \in {client.selected, Null}
    /\ ~client.history.loading => client.history.data \in {client.selected, Null}
    /\ Awaited("status") => client.status.loading
    /\ Awaited("history") => client.history.loading

====
